---- MODULE Spec2Model ----
(***************************************************************************)
(* AFEARETask (ark_nlp/model/re/afea_bert/afea_relation_extraction_task.py) *)
(* as a state machine: the batch collator, the loss adapters, the          *)
(* step/epoch recorder over self.logs and the evaluation aggregator over   *)
(* self.evaluate_logs.                                                     *)
(*                                                                         *)
(* Tensors are sequences: a 1-D tensor is a sequence of integers, a 2-D    *)
(* tensor a sequence of rows.  Class labels are 0-based as in the code;    *)
(* sequence positions are 1-based.  Python floats that the code obtains by *)
(* dividing integers are kept as exact fractions <<num, den>>.             *)
(***************************************************************************)
EXTENDS Integers, Sequences, FiniteSets

VARIABLES
    evaluate_logs,   \* self.evaluate_logs
    eval_pc,         \* position of the evaluation pass: idle, collecting, ended, failed
    eval_err,        \* exception that left the last evaluation hook, or "none"
    eval_out,        \* what _on_evaluate_epoch_end computed and printed
    last_hook,       \* the evaluation hook called last
    fed,             \* history: the batches stepped since the last begin
    fed_loss,        \* history: the sum of the losses returned since the last begin
    restarted        \* history: a begin has been called over used evaluate_logs

eval_vars == <<evaluate_logs, eval_pc, eval_err, eval_out, last_hook, fed, fed_loss, restarted>>

VARIABLES
    logs,            \* self.logs
    opt_calls,       \* history: number of _on_optimize_record calls
    call             \* history: the collator, loss adapter or recorder hook called
                     \* last, with its arguments and its outcome

train_vars == <<logs, opt_calls>>

vars == <<eval_vars, train_vars, call>>

(* ------------------------------ bounds -------------------------------- *)

\* most examples stepped in one evaluation pass
MaxExamples == 4
\* most rows (examples) in one evaluation batch: half a pass
MaxBatch == MaxExamples \div 2
\* most optimization steps recorded
MaxTrainSteps == 3
\* most rows in one training batch
MaxTrainBatch == 3
\* most feature records in one collated batch
MaxCollate == 2

(* ------------------------------ inputs -------------------------------- *)

\* validation_data.categories, the class names of the report
categories == <<"c0", "c1">>
NumClasses == Len(categories)
Classes == 0 .. (NumClasses - 1)

\* rows of a logits tensor, one score per class: a tie (top-1 is class 0) and
\* a row whose top-1 is class 1
LogitRows == {<<1, 1>>, <<0, 1>>}

\* loss.item() of the external loss function, in whole units
LossVals == {1, 2}

RECURSIVE SeqsUpTo(_, _)
SeqsUpTo(S, n) ==
    IF n = 0 THEN {<<>>}
    ELSE LET shorter == SeqsUpTo(S, n - 1)
         IN  shorter \cup {Append(s, x) : s \in {t \in shorter : Len(t) = n - 1}, x \in S}

\* a batch as the model sees it: inputs['label_ids'] and the logits of outputs,
\* one row per label, at least one
BatchesOfAtMost(n) ==
    {b \in [label_ids : SeqsUpTo(Classes, n) \ {<<>>}, logits : SeqsUpTo(LogitRows, n) \ {<<>>}] :
        Len(b.label_ids) = Len(b.logits)}

\* the second component of the model's outputs
EntityPairs == {<<<<2, 3>>>>, <<<<2, 3>>, <<4, 5>>>>}
SomeEntityPair == <<<<2, 3>>>>

\* per-example feature records of two tokens, with no, one or two labels
Feature(k, labels) ==
    [input_ids |-> <<k, k + 1>>,
     attention_mask |-> <<1, k % 2>>,
     token_type_ids |-> <<0, (k + 1) % 2>>,
     position_ids |-> <<0, 1>>,
     relations_idx |-> <<<<k, k + 1>>>>,
     entity_pair |-> <<<<k, k + 2>>>>,
     label_ids |-> labels]

FeatureRecords == {Feature(k, labels) : k \in {5, 6, 7}, labels \in {<<>>, <<1>>, <<0, 1>>}}

(* --------------------------- tensor library --------------------------- *)

RECURSIVE GCD(_, _)
GCD(a, b) == IF b = 0 THEN a ELSE GCD(b, a % b)

\* a / b of two Python numbers with b # 0, as a fraction in lowest terms
Frac(a, b) == LET g == GCD(a, b) IN IF g = 0 THEN <<0, 1>> ELSE <<a \div g, b \div g>>

FracAdd(x, y) == Frac(x[1] * y[2] + y[1] * x[2], x[2] * y[2])

\* index (0-based) of the first maximal value of a row
ArgMaxFirst(row) ==
    (CHOOSE i \in 1 .. Len(row) :
        /\ \A j \in 1 .. Len(row) : row[j] <= row[i]
        /\ \A j \in 1 .. (i - 1) : row[j] < row[i]) - 1

\* mutant: on a tie the index of the last maximal value
MutTorchMaxDim1LastTie(logits) ==
    [i \in 1 .. Len(logits) |->
        (CHOOSE c \in 1 .. Len(logits[i]) :
            /\ \A j \in 1 .. Len(logits[i]) : logits[i][j] <= logits[i][c]
            /\ \A j \in (c + 1) .. Len(logits[i]) : logits[i][j] < logits[i][c]) - 1]

\* _, preds = torch.max(logits, 1)
TorchMaxDim1(logits) == [i \in 1 .. Len(logits) |-> ArgMaxFirst(logits[i])]

\* torch.argmax(t, -1)
TorchArgmaxLast(t) == [i \in 1 .. Len(t) |-> ArgMaxFirst(t[i])]

\* torch.cat(tensors, dim=0) of a non-empty list
RECURSIVE TorchCat(_)
TorchCat(tensors) ==
    IF tensors = <<>> THEN <<>>
    ELSE Head(tensors) \o TorchCat(Tail(tensors))

\* torch.sum(a == b).item() of two 1-D tensors of one length
SumEq(a, b) == Cardinality({i \in 1 .. Len(a) : a[i] = b[i]})

(* ------------------------------ sklearn ------------------------------- *)

\* unique_labels(y_true, y_pred): the labels that occur in either
PresentLabels(y_true, y_pred) ==
    {y_true[i] : i \in 1 .. Len(y_true)} \cup {y_pred[i] : i \in 1 .. Len(y_pred)}

\* sklearn_metrics.confusion_matrix: rows true label, columns predicted label
ConfusionMatrix(y_true, y_pred) ==
    LET L == PresentLabels(y_true, y_pred)
    IN  [t \in L, p \in L |->
            Cardinality({i \in 1 .. Len(y_true) : y_true[i] = t /\ y_pred[i] = p})]

\* mutant: the precision of the class, tp / (tp + fp)
MutClassPrecision(y_true, y_pred, c) ==
    LET tp == Cardinality({i \in 1 .. Len(y_true) : y_true[i] = c /\ y_pred[i] = c})
        fp == Cardinality({i \in 1 .. Len(y_true) : y_true[i] # c /\ y_pred[i] = c})
    IN  Frac(tp, tp + fp)

\* F1 of one class: 2tp / (2tp + fp + fn)
ClassF1(y_true, y_pred, c) ==
    LET tp == Cardinality({i \in 1 .. Len(y_true) : y_true[i] = c /\ y_pred[i] = c})
        fp == Cardinality({i \in 1 .. Len(y_true) : y_true[i] # c /\ y_pred[i] = c})
        fn == Cardinality({i \in 1 .. Len(y_true) : y_true[i] = c /\ y_pred[i] # c})
    IN  Frac(2 * tp, 2 * tp + fp + fn)

RECURSIVE FracSum(_, _, _)
FracSum(y_true, y_pred, L) ==
    IF L = {} THEN <<0, 1>>
    ELSE LET c == CHOOSE x \in L : TRUE
         IN  FracAdd(ClassF1(y_true, y_pred, c), FracSum(y_true, y_pred, L \ {c}))

\* sklearn_metrics.f1_score(y_true, y_pred, average='macro'): the unweighted
\* mean of the per-class F1 over the labels present
MacroF1(y_true, y_pred) ==
    LET L == PresentLabels(y_true, y_pred)
        s == FracSum(y_true, y_pred, L)
    IN  Frac(s[1], s[2] * Cardinality(L))

(* --------------------------- batch collator --------------------------- *)

\* [i for f in batch for i in f['label_ids']]
RECURSIVE FlattenLabels(_)
FlattenLabels(batch) ==
    IF batch = <<>> THEN <<>>
    ELSE Head(batch).label_ids \o FlattenLabels(Tail(batch))

\* mutant: label_ids stacked per record like the fixed-length fields
MutCollateStacksLabels(batch) ==
    [input_ids |-> [i \in 1 .. Len(batch) |-> batch[i].input_ids],
     attention_mask |-> [i \in 1 .. Len(batch) |-> batch[i].attention_mask],
     token_type_ids |-> [i \in 1 .. Len(batch) |-> batch[i].token_type_ids],
     position_ids |-> [i \in 1 .. Len(batch) |-> batch[i].position_ids],
     relations_idx |-> [i \in 1 .. Len(batch) |-> batch[i].relations_idx],
     entity_pair |-> [i \in 1 .. Len(batch) |-> batch[i].entity_pair],
     label_ids |-> [i \in 1 .. Len(batch) |-> batch[i].label_ids]]

\* _train_collate_fn
TrainCollateFn(batch) ==
    [input_ids |-> [i \in 1 .. Len(batch) |-> batch[i].input_ids],
     attention_mask |-> [i \in 1 .. Len(batch) |-> batch[i].attention_mask],
     token_type_ids |-> [i \in 1 .. Len(batch) |-> batch[i].token_type_ids],
     position_ids |-> [i \in 1 .. Len(batch) |-> batch[i].position_ids],
     relations_idx |-> [i \in 1 .. Len(batch) |-> batch[i].relations_idx],
     entity_pair |-> [i \in 1 .. Len(batch) |-> batch[i].entity_pair],
     label_ids |-> FlattenLabels(batch)]

\* _evaluate_collate_fn
EvaluateCollateFn(batch) == TrainCollateFn(batch)

TrainCollate(batch) ==
    /\ call' = [hook |-> "train_collate", batch |-> batch, tensors |-> TrainCollateFn(batch)]
    /\ UNCHANGED <<eval_vars, train_vars>>

EvaluateCollate(batch) ==
    /\ call' = [hook |-> "evaluate_collate", batch |-> batch,
                 tensors |-> EvaluateCollateFn(batch)]
    /\ UNCHANGED <<eval_vars, train_vars>>

(* ---------------------------- loss adapter ---------------------------- *)

NoReturn == [returned |-> FALSE]

\* self._compute_loss(inputs, logits): the external loss function, which
\* returns a scalar or raises
ComputeLoss(inputs, logits, lossRaises, loss) ==
    [raised |-> lossRaises, value |-> loss, args |-> <<inputs, logits>>]

\* mutant: the bookkeeping callback runs before the loss is computed
MutTrainLossRecordsFirst(inputs, outputs, lossRaises, loss) ==
    LET logits == outputs[1]
        l == ComputeLoss(inputs, logits, lossRaises, loss)
    IN  [raised |-> l.raised,
         loss_args |-> l.args,
         recorded |-> 1,
         ret |-> IF l.raised THEN NoReturn
                 ELSE [returned |-> TRUE, logits |-> logits, loss |-> l.value]]

\* _get_train_loss: what it passes to the loss function, how many times it
\* invokes self._compute_loss_record, whether it raises and what it returns
GetTrainLossResult(inputs, outputs, lossRaises, loss) ==
    LET logits == outputs[1]
        l == ComputeLoss(inputs, logits, lossRaises, loss)
    IN  [raised |-> l.raised,
         loss_args |-> l.args,
         recorded |-> IF l.raised THEN 0 ELSE 1,
         ret |-> IF l.raised THEN NoReturn
                 ELSE [returned |-> TRUE, logits |-> logits, loss |-> l.value]]

\* _get_evaluate_loss
GetEvaluateLossResult(inputs, outputs, lossRaises, loss) ==
    LET logits == outputs[1]
        l == ComputeLoss(inputs, logits, lossRaises, loss)
    IN  [raised |-> l.raised,
         loss_args |-> l.args,
         recorded |-> 0,
         ret |-> IF l.raised THEN NoReturn
                 ELSE [returned |-> TRUE, logits |-> logits, loss |-> l.value]]

GetTrainLoss(inputs, outputs, lossRaises, loss) ==
    /\ call' = [hook |-> "train_loss", inputs |-> inputs, outputs |-> outputs,
                 loss_raises |-> lossRaises, loss |-> loss,
                 result |-> GetTrainLossResult(inputs, outputs, lossRaises, loss)]
    /\ UNCHANGED <<eval_vars, train_vars>>

GetEvaluateLoss(inputs, outputs, lossRaises, loss) ==
    /\ call' = [hook |-> "evaluate_loss", inputs |-> inputs, outputs |-> outputs,
                 loss_raises |-> lossRaises, loss |-> loss,
                 result |-> GetEvaluateLossResult(inputs, outputs, lossRaises, loss)]
    /\ UNCHANGED <<eval_vars, train_vars>>

(* ------------------------ step/epoch recorder ------------------------- *)

\* number of rows whose first top-1 class is the label
Top1Hits(labels, logits) ==
    Cardinality({i \in 1 .. Len(labels) :
        /\ \A j \in 1 .. Len(logits[i]) : logits[i][j] <= logits[i][labels[i] + 1]
        /\ \A j \in 1 .. labels[i] : logits[i][j] < logits[i][labels[i] + 1]})

ZeroedLogs ==
    [global_step |-> 0, epoch_step |-> 0, epoch_loss |-> 0, epoch_evaluation |-> <<0, 1>>]

\* mutant: the step counters move only on a verbose call
MutOptimizeRecordVerboseOnly(l, inputs, logits, verbose) ==
    IF ~verbose
    THEN [logs |-> l, added |-> <<0, 1>>, err |-> "none"]
    ELSE LET stepped == [l EXCEPT !.global_step = @ + 1, !.epoch_step = @ + 1]
             hits == SumEq(TorchMaxDim1(logits), inputs.label_ids)
         IN  IF Len(logits) < 2
             THEN [logs |-> stepped, added |-> <<0, 1>>, err |-> "IndexError"]
             ELSE [logs |-> [stepped EXCEPT
                                !.epoch_evaluation = FracAdd(@, Frac(hits, Len(logits[2])))],
                   added |-> Frac(hits, Len(logits[2])),
                   err |-> "none"]

\* _on_optimize_record: the logs it leaves, the amount it added to
\* epoch_evaluation and the exception it raised.  logits[1] is the second row
\* of logits: reading it fails when logits has one row.
OptimizeRecordResult(l, inputs, logits, verbose) ==
    LET stepped == [l EXCEPT !.global_step = @ + 1, !.epoch_step = @ + 1]
    IN  IF ~verbose
        THEN [logs |-> stepped, added |-> <<0, 1>>, err |-> "none"]
        ELSE LET preds == TorchMaxDim1(logits)
                 hits == SumEq(preds, inputs.label_ids)
             IN  IF Len(logits) < 2
                 THEN [logs |-> stepped, added |-> <<0, 1>>, err |-> "IndexError"]
                 ELSE LET amount == Frac(hits, Len(logits[2]))
                      IN  [logs |-> [stepped EXCEPT !.epoch_evaluation = FracAdd(@, amount)],
                           added |-> amount,
                           err |-> "none"]

OnOptimizeRecord(inputs, logits, verbose) ==
    /\ logs.global_step < MaxTrainSteps
    /\ LET r == OptimizeRecordResult(logs, inputs, logits, verbose)
       IN  /\ logs' = r.logs
           /\ call' = [hook |-> "optimize", verbose |-> verbose,
                       size |-> Len(inputs.label_ids),
                       hits |-> Top1Hits(inputs.label_ids, logits),
                       added |-> r.added, err |-> r.err]
    /\ opt_calls' = opt_calls + 1
    /\ UNCHANGED eval_vars

\* the two running averages of a progress line; epoch_step is not zero
ProgressAverages(l) ==
    [loss |-> Frac(l.epoch_loss, l.epoch_step),
     evaluation |-> Frac(l.epoch_evaluation[1], l.epoch_evaluation[2] * l.epoch_step)]

\* _on_step_end
OnStepEnd(step, verbose, show_step) ==
    /\ IF verbose /\ (step + 1) % show_step = 0
       THEN IF logs.epoch_step = 0
            THEN call' = [hook |-> "step_end", printed |-> FALSE,
                                step_end_record |-> FALSE, err |-> "ZeroDivisionError"]
            ELSE call' = [hook |-> "step_end", printed |-> TRUE, step |-> step,
                          line |-> ProgressAverages(logs),
                                step_end_record |-> TRUE, err |-> "none"]
       ELSE call' = [hook |-> "step_end", printed |-> FALSE,
                           step_end_record |-> TRUE, err |-> "none"]
    /\ UNCHANGED <<train_vars, eval_vars>>

\* _on_epoch_end
OnEpochEnd(epoch, verbose) ==
    /\ IF verbose
       THEN IF logs.epoch_step = 0
            THEN call' = [hook |-> "epoch_end", printed |-> FALSE,
                                err |-> "ZeroDivisionError"]
            ELSE call' = [hook |-> "epoch_end", printed |-> TRUE, epoch |-> epoch,
                                line |-> ProgressAverages(logs), err |-> "none"]
       ELSE call' = [hook |-> "epoch_end", printed |-> FALSE, err |-> "none"]
    /\ UNCHANGED <<train_vars, eval_vars>>

NoCall == [hook |-> "none"]

(* ----------------------- evaluation aggregator ------------------------ *)

\* a fraction the summary line did not print
NotPrinted == <<0, 0>>

NoSummary == [done |-> FALSE, printed |-> FALSE]

ZeroedEvaluateLogs ==
    [eval_loss |-> 0, eval_acc |-> 0, eval_step |-> 0, eval_example |-> 0,
     labels |-> <<>>, logits |-> <<>>]

\* mutant: eval_acc is not reset
MutBeginLogsKeepsAcc(elogs) ==
    [elogs EXCEPT
        !.eval_loss = 0, !.eval_step = 0, !.eval_example = 0,
        !.labels = <<>>, !.logits = <<>>]

\* the assignments of _on_evaluate_begin_record
BeginLogs(elogs) ==
    [elogs EXCEPT
        !.eval_loss = 0, !.eval_acc = 0, !.eval_step = 0, !.eval_example = 0,
        !.labels = <<>>, !.logits = <<>>]

\* _on_evaluate_begin_record
OnEvaluateBeginRecord ==
    /\ evaluate_logs' = BeginLogs(evaluate_logs)
    /\ eval_pc' = "collecting"
    /\ eval_err' = "none"
    /\ eval_out' = NoSummary
    /\ last_hook' = "begin"
    /\ fed' = <<>>
    /\ fed_loss' = 0
    /\ restarted' = (restarted \/ evaluate_logs # ZeroedEvaluateLogs)
    /\ UNCHANGED <<train_vars, call>>

\* mutant: the batch is put at the front of both buffers
MutStepLogsPrepend(elogs, labels, logits, loss) ==
    [elogs EXCEPT
        !.eval_loss = @ + loss,
        !.labels = <<labels>> \o @,
        !.logits = <<logits>> \o @,
        !.eval_example = @ + Len(labels),
        !.eval_step = @ + 1,
        !.eval_acc = @ + SumEq(TorchMaxDim1(logits), labels)]

\* mutant: eval_example counts batches, not examples
MutStepLogsCountBatches(elogs, labels, logits, loss) ==
    [elogs EXCEPT
        !.eval_loss = @ + loss,
        !.labels = Append(@, labels),
        !.logits = Append(@, logits),
        !.eval_example = @ + 1,
        !.eval_step = @ + 1,
        !.eval_acc = @ + SumEq(TorchMaxDim1(logits), labels)]

\* the mutations of _on_evaluate_step_end once the loss has been computed
EvaluateStepLogs(elogs, labels, logits, loss) ==
    LET preds == TorchMaxDim1(logits)
    IN  [elogs EXCEPT
            !.eval_loss = @ + loss,
            !.labels = Append(@, labels),
            !.logits = Append(@, logits),
            !.eval_example = @ + Len(labels),
            !.eval_step = @ + 1,
            !.eval_acc = @ + SumEq(preds, labels)]

\* _on_evaluate_step_end; the external loss function returns a value or raises
OnEvaluateStepEnd(inputs, outputs, lossRaises, loss) ==
    /\ eval_pc = "collecting"
    /\ LET r == GetEvaluateLossResult(inputs, outputs, lossRaises, loss)
       IN  /\ IF r.raised
              THEN /\ eval_pc' = "failed"
                   /\ eval_err' = "LossError"
                   /\ UNCHANGED <<evaluate_logs, fed, fed_loss>>
              ELSE /\ evaluate_logs' = EvaluateStepLogs(evaluate_logs, inputs.label_ids,
                                                        r.ret.logits, r.ret.loss)
                   /\ fed' = Append(fed, [label_ids |-> inputs.label_ids, logits |-> outputs[1]])
                   /\ fed_loss' = fed_loss + loss
                   /\ UNCHANGED <<eval_pc, eval_err>>
    /\ last_hook' = "step"
    /\ UNCHANGED <<eval_out, restarted, train_vars, call>>

\* what _on_evaluate_epoch_end computes, and prints when is_evaluate_print is set
EvaluateSummary(elogs, is_evaluate_print) ==
    LET _labels == TorchCat(elogs.labels)
        _preds == TorchArgmaxLast(TorchCat(elogs.logits))
    IN  [done |-> TRUE,
         printed |-> is_evaluate_print,
         labels |-> _labels,
         preds |-> _preds,
         f1_score |-> MacroF1(_labels, _preds),
         confusion_matrix |-> ConfusionMatrix(_labels, _preds),
         loss |-> IF is_evaluate_print THEN Frac(elogs.eval_loss, elogs.eval_step) ELSE NotPrinted,
         acc |-> IF is_evaluate_print THEN Frac(elogs.eval_acc, elogs.eval_example) ELSE NotPrinted]

\* mutant: torch.cat of an empty list gives an empty tensor
MutEpochEndErrorNoCatCheck(elogs, is_evaluate_print, reportRaises) ==
    LET _labels == TorchCat(elogs.labels)
        _preds == TorchArgmaxLast(TorchCat(elogs.logits))
    IN  IF Cardinality(PresentLabels(_labels, _preds)) # Len(categories) /\ reportRaises
        THEN "ReportValueError"
        ELSE IF is_evaluate_print /\ (elogs.eval_step = 0 \/ elogs.eval_example = 0)
             THEN "ZeroDivisionError"
             ELSE "none"

\* the exception _on_evaluate_epoch_end raises, or "none".  reportRaises: the
\* installed sklearn rejects target_names whose length differs from the number
\* of labels present (older releases print a truncated report instead).
EvaluateEpochEndError(elogs, is_evaluate_print, reportRaises) ==
    IF elogs.labels = <<>> THEN "CatEmptyListError"
    ELSE LET _labels == TorchCat(elogs.labels)
             _preds == TorchArgmaxLast(TorchCat(elogs.logits))
         IN  IF Cardinality(PresentLabels(_labels, _preds)) # Len(categories) /\ reportRaises
             THEN "ReportValueError"
             ELSE IF is_evaluate_print /\ (elogs.eval_step = 0 \/ elogs.eval_example = 0)
                  THEN "ZeroDivisionError"
                  ELSE "none"

\* _on_evaluate_epoch_end
OnEvaluateEpochEnd(is_evaluate_print, reportRaises) ==
    /\ eval_pc = "collecting"
    /\ LET e == EvaluateEpochEndError(evaluate_logs, is_evaluate_print, reportRaises)
       IN  /\ eval_err' = e
           /\ eval_pc' = IF e = "none" THEN "ended" ELSE "failed"
           /\ eval_out' = IF e = "none"
                          THEN EvaluateSummary(evaluate_logs, is_evaluate_print)
                          ELSE NoSummary
    /\ last_hook' = "end"
    /\ UNCHANGED <<evaluate_logs, fed, fed_loss, restarted, train_vars, call>>

(* ------------------- the hooks as the loops call them ----------------- *)

EvalBegin == OnEvaluateBeginRecord

EvalStep(batches, losses) ==
    \E batch \in {b \in batches : Len(b.label_ids) <= MaxExamples - evaluate_logs.eval_example},
       lossRaises \in BOOLEAN, loss \in losses :
        OnEvaluateStepEnd([label_ids |-> batch.label_ids],
                          <<batch.logits, SomeEntityPair>>, lossRaises, loss)

EvalEnd ==
    \E is_evaluate_print \in BOOLEAN, reportRaises \in BOOLEAN :
        OnEvaluateEpochEnd(is_evaluate_print, reportRaises)

TrainLoss(batches, pairs, losses) ==
    \E batch \in batches, entity_pair \in pairs, lossRaises \in BOOLEAN, loss \in losses :
        GetTrainLoss([label_ids |-> batch.label_ids], <<batch.logits, entity_pair>>,
                     lossRaises, loss)

EvaluateLoss(batches, pairs, losses) ==
    \E batch \in batches, entity_pair \in pairs, lossRaises \in BOOLEAN, loss \in losses :
        GetEvaluateLoss([label_ids |-> batch.label_ids], <<batch.logits, entity_pair>>,
                        lossRaises, loss)

CollateTrain(batches) == \E batch \in batches : TrainCollate(batch)

CollateEvaluate(batches) == \E batch \in batches : EvaluateCollate(batch)

OptimizeRecord(batches) ==
    \E batch \in batches, verbose \in BOOLEAN :
        OnOptimizeRecord([label_ids |-> batch.label_ids], batch.logits, verbose)

StepEnd ==
    \E step \in 0 .. MaxTrainSteps, verbose \in BOOLEAN, show_step \in {1, 2} :
        OnStepEnd(step, verbose, show_step)

EpochEnd == \E verbose \in BOOLEAN : OnEpochEnd(1, verbose)

\* the task after construction, before any hook is called: both log
\* dictionaries hold zeroed counters and empty buffers
Init ==
    /\ evaluate_logs = ZeroedEvaluateLogs
    /\ eval_pc = "idle"
    /\ eval_err = "none"
    /\ eval_out = NoSummary
    /\ last_hook = "none"
    /\ fed = <<>>
    /\ fed_loss = 0
    /\ restarted = FALSE
    /\ logs = ZeroedLogs
    /\ opt_calls = 0
    /\ call = NoCall

\* a few inputs for each hook, for the specification of all hooks together
FewBatches ==
    {[label_ids |-> <<1>>, logits |-> <<<<0, 1>>>>],
     [label_ids |-> <<0, 1>>, logits |-> <<<<1, 1>>, <<1, 1>>>>],
     [label_ids |-> <<1, 0, 1>>, logits |-> <<<<0, 1>>, <<1, 1>>, <<0, 1>>>>]}
OneBatch == {[label_ids |-> <<0, 1>>, logits |-> <<<<1, 1>>, <<1, 1>>>>]}
OneLoss == {1}
OneRecordBatch == {<<CHOOSE f \in FeatureRecords : f.label_ids = <<0, 1>>>>}

\* every hook of the task
Next ==
    \/ OptimizeRecord(FewBatches)
    \/ StepEnd
    \/ EpochEnd
    \/ TrainLoss(OneBatch, {SomeEntityPair}, OneLoss)
    \/ EvaluateLoss(OneBatch, {SomeEntityPair}, OneLoss)
    \/ CollateTrain(OneRecordBatch)
    \/ CollateEvaluate(OneRecordBatch)
    \/ EvalBegin
    \/ EvalStep(OneBatch, OneLoss)
    \/ EvalEnd

Spec == Init /\ [][Next]_vars

\* the step/epoch recorder over all its inputs
NextTrain ==
    \/ OptimizeRecord(BatchesOfAtMost(MaxTrainBatch))
    \/ StepEnd
    \/ EpochEnd

SpecTrain == Init /\ [][NextTrain]_vars

\* the evaluation aggregator over all its inputs
NextEval ==
    \/ EvalBegin
    \/ EvalStep(BatchesOfAtMost(MaxBatch), LossVals)
    \/ EvalEnd

SpecEval == Init /\ [][NextEval]_vars

\* the loss adapters over all their inputs
NextLoss ==
    \/ TrainLoss(BatchesOfAtMost(MaxBatch), EntityPairs, LossVals)
    \/ EvaluateLoss(BatchesOfAtMost(MaxBatch), EntityPairs, LossVals)

SpecLoss == Init /\ [][NextLoss]_vars

\* the collators over all their inputs
NextCollate ==
    \/ CollateTrain(SeqsUpTo(FeatureRecords, MaxCollate) \ {<<>>})
    \/ CollateEvaluate(SeqsUpTo(FeatureRecords, MaxCollate) \ {<<>>})

SpecCollate == Init /\ [][NextCollate]_vars

(* ------------------- properties of the aggregator -------------------- *)

\* number of labels in the first k batches stepped since the last begin
RECURSIVE FedCount(_)
FedCount(k) == IF k = 0 THEN 0 ELSE FedCount(k - 1) + Len(fed[k].label_ids)

\* p is a top-1 class of row: no class scores higher
IsArgmax(row, p) == \A j \in 1 .. Len(row) : row[j] <= row[p + 1]

\* number of positions where two vectors of one length agree
Matches(a, b) == Cardinality({i \in 1 .. Len(a) : a[i] = b[i]})

\* C1: when _on_evaluate_epoch_end has run over batches B1..Bn, its label
\* vector is B1's labels, ..., Bn's labels in call order with the order within
\* each batch kept, and its i-th prediction is a top-1 class of the logits row
\* that came with the i-th label.
C1_ConcatKeepsOrder ==
    eval_out.done =>
        /\ Len(eval_out.labels) = FedCount(Len(fed))
        /\ Len(eval_out.preds) = FedCount(Len(fed))
        /\ \A k \in 1 .. Len(fed) : \A j \in 1 .. Len(fed[k].label_ids) :
              /\ eval_out.labels[FedCount(k - 1) + j] = fed[k].label_ids[j]
              /\ IsArgmax(fed[k].logits[j], eval_out.preds[FedCount(k - 1) + j])

\* a pass of two batches with different labels and different logits has ended
C1_Witness ==
    /\ eval_out.done
    /\ Len(fed) >= 2
    /\ fed[1].label_ids # fed[2].label_ids
    /\ fed[1].logits # fed[2].logits
    /\ Len(fed[1].label_ids) # Len(fed[2].label_ids)

\* C2: after begin and any number of steps, eval_example is the sum of the
\* batches' label counts, which is the number of labels buffered, and eval_step
\* is the number of steps, which is the length of both buffers.
C2_CountsMatchBuffers ==
    eval_pc = "collecting" =>
        /\ evaluate_logs.eval_example = FedCount(Len(fed))
        /\ evaluate_logs.eval_example = Len(TorchCat(evaluate_logs.labels))
        /\ evaluate_logs.eval_step = Len(fed)
        /\ evaluate_logs.eval_step = Len(evaluate_logs.labels)
        /\ evaluate_logs.eval_step = Len(evaluate_logs.logits)

\* three batches, not all of one size, have been stepped
C2_Witness ==
    /\ eval_pc = "collecting"
    /\ Len(fed) >= 3
    /\ evaluate_logs.eval_example > evaluate_logs.eval_step

C4_BeginResets ==
    /\ last_hook = "begin" => evaluate_logs = ZeroedEvaluateLogs
    /\ eval_pc = "collecting" =>
          /\ evaluate_logs.eval_loss = fed_loss
          /\ evaluate_logs.labels = [k \in 1 .. Len(fed) |-> fed[k].label_ids]
          /\ evaluate_logs.logits = [k \in 1 .. Len(fed) |-> fed[k].logits]
    /\ (eval_out.done /\ eval_out.printed) =>
          /\ eval_out.loss[1] * Len(fed) = fed_loss * eval_out.loss[2]
          /\ eval_out.acc[2] * evaluate_logs.eval_acc = eval_out.acc[1] * FedCount(Len(fed))
          /\ Len(eval_out.labels) = FedCount(Len(fed))

\* a second pass, begun over used evaluate_logs, has ended and printed
C4_Witness ==
    /\ restarted
    /\ eval_out.done /\ eval_out.printed
    /\ Len(fed) >= 1

\* C5 as claimed: a zero-step pass fails in one of the two divisions
C5_ZeroStepDivisionError ==
    (last_hook = "end" /\ fed = <<>>) =>
        (eval_err = "ZeroDivisionError" /\ ~eval_out.done)

\* C5: a zero-step pass (begin, then end, for either value of
\* is_evaluate_print) fails in torch.cat of the empty label buffer, before any
\* metric or division, and produces no summary.
C5_ZeroStepCatError ==
    (last_hook = "end" /\ fed = <<>>) =>
        /\ eval_err = "CatEmptyListError"
        /\ eval_pc = "failed"
        /\ eval_out = NoSummary

\* end has been called right after begin
C5_Witness == last_hook = "end" /\ fed = <<>> /\ evaluate_logs.eval_step = 0

\* the pass of the scenario has ended and printed
Scenario ==
    /\ eval_out.done /\ eval_out.printed
    /\ eval_out.labels = <<0, 1, 0, 1>>
    /\ eval_out.preds = <<0, 1, 1, 1>>

\* C8 as claimed: the scenario's accuracy is 0.75 and its macro-F1 is 0.833
\* to three places
C8_ScenarioF1Is833 ==
    Scenario =>
        /\ eval_out.acc = <<3, 4>>
        /\ 8325 * eval_out.f1_score[2] <= 10000 * eval_out.f1_score[1]
        /\ 10000 * eval_out.f1_score[1] <= 8335 * eval_out.f1_score[2]

\* C8: for labels [0,1,0,1] and predictions [0,1,1,1] the accuracy is 0.75,
\* the confusion matrix is [[1,1],[0,2]] and the macro-F1 is (2/3 + 4/5)/2 =
\* 11/15 (about 0.733); perfect predictions give macro-F1 1 and predictions
\* that are wrong everywhere give macro-F1 0.
C8_ScenarioF1 ==
    /\ Scenario =>
          /\ eval_out.acc = <<3, 4>>
          /\ eval_out.confusion_matrix[0, 0] = 1 /\ eval_out.confusion_matrix[0, 1] = 1
          /\ eval_out.confusion_matrix[1, 0] = 0 /\ eval_out.confusion_matrix[1, 1] = 2
          /\ eval_out.f1_score[1] * 15 = 11 * eval_out.f1_score[2]
    /\ (eval_out.done /\ eval_out.preds = eval_out.labels) =>
          eval_out.f1_score[1] = eval_out.f1_score[2]
    /\ (eval_out.done /\ \A i \in 1 .. Len(eval_out.labels) :
                            eval_out.preds[i] # eval_out.labels[i]) =>
          eval_out.f1_score[1] = 0

\* the scenario, reached as two batches of two examples
C8_Witness == Scenario /\ Len(fed) = 2

(* --------------------- properties of the collator --------------------- *)

\* number of labels in the first k records of a batch
RECURSIVE LabelCount(_, _)
LabelCount(batch, k) == IF k = 0 THEN 0 ELSE LabelCount(batch, k - 1) + Len(batch[k].label_ids)

\* C6: for a non-empty batch B of well-formed records, either collator returns
\* the four fixed-length fields with first dimension len(B) and row i from
\* record i, relations_idx and entity_pair as lists of len(B) in record order,
\* and label_ids as one flat vector of the records' labels in record order.
C6_CollateShapes ==
    call.hook \in {"train_collate", "evaluate_collate"} =>
        LET B == call.batch
            t == call.tensors
            n == Len(call.batch)
        IN  /\ Len(t.input_ids) = n /\ \A i \in 1 .. n : t.input_ids[i] = B[i].input_ids
            /\ Len(t.attention_mask) = n
            /\ \A i \in 1 .. n : t.attention_mask[i] = B[i].attention_mask
            /\ Len(t.token_type_ids) = n
            /\ \A i \in 1 .. n : t.token_type_ids[i] = B[i].token_type_ids
            /\ Len(t.position_ids) = n /\ \A i \in 1 .. n : t.position_ids[i] = B[i].position_ids
            /\ Len(t.relations_idx) = n
            /\ \A i \in 1 .. n : t.relations_idx[i] = B[i].relations_idx
            /\ Len(t.entity_pair) = n /\ \A i \in 1 .. n : t.entity_pair[i] = B[i].entity_pair
            /\ Len(t.label_ids) = LabelCount(B, n)
            /\ \A i \in 1 .. n : \A j \in 1 .. Len(B[i].label_ids) :
                  /\ t.label_ids[LabelCount(B, i - 1) + j] = B[i].label_ids[j]
                  /\ t.label_ids[LabelCount(B, i - 1) + j] \in Classes

\* the evaluation collator has collated two different records with different
\* numbers of labels
C6_Witness ==
    /\ call.hook = "evaluate_collate"
    /\ Len(call.batch) = 2
    /\ call.batch[1].input_ids # call.batch[2].input_ids
    /\ Len(call.batch[1].label_ids) = 2
    /\ Len(call.batch[2].label_ids) = 1

(* ------------------- properties of the loss adapters ------------------ *)

\* C9: _get_train_loss passes inputs and the first component of outputs to the
\* loss function; when that returns, it invokes the bookkeeping callback once
\* and returns (logits, loss) with logits the first component of outputs; when
\* that raises, the callback is not invoked and nothing is returned.
\* _get_evaluate_loss does the same and never invokes the callback.
C9_LossAdapters ==
    call.hook \in {"train_loss", "evaluate_loss"} =>
        LET r == call.result
        IN  /\ r.loss_args = <<call.inputs, call.outputs[1]>>
            /\ r.raised = call.loss_raises
            /\ r.raised => r.ret = NoReturn /\ r.recorded = 0
            /\ ~r.raised =>
                  /\ r.ret = [returned |-> TRUE, logits |-> call.outputs[1], loss |-> call.loss]
                  /\ r.recorded = IF call.hook = "train_loss" THEN 1 ELSE 0

\* the loss function has failed inside _get_train_loss
C9_Witness ==
    /\ call.hook = "train_loss"
    /\ call.loss_raises
    /\ Len(call.outputs[1]) = 2

(* --------------------- properties of the recorder --------------------- *)

\* C7 as claimed: a verbose _on_optimize_record adds the fraction of correct
\* top-1 predictions of the batch, so each increment and the running mean
\* epoch_evaluation / epoch_step lie in [0, 1]
C7_IncrementIsBatchAccuracy ==
    /\ (call.hook = "optimize" /\ call.verbose) =>
          /\ call.err = "none"
          /\ call.added[1] * call.size = call.hits * call.added[2]
          /\ 0 <= call.added[1] /\ call.added[1] <= call.added[2]
    /\ logs.epoch_step > 0 =>
          logs.epoch_evaluation[1] <= logs.epoch_evaluation[2] * logs.epoch_step

\* C10: every _on_optimize_record adds one to global_step and to epoch_step,
\* verbose or not, and leaves epoch_evaluation alone when not verbose; no
\* other hook changes the three counters, none of them ever decreases, and
\* after k optimize records from zeroed counters both step counters are k.
C10_StepCounters ==
    [][/\ opt_calls' = opt_calls + 1 =>
             /\ logs'.global_step = logs.global_step + 1
             /\ logs'.epoch_step = logs.epoch_step + 1
             /\ ~call'.verbose => logs'.epoch_evaluation = logs.epoch_evaluation
       /\ opt_calls' = opt_calls =>
             /\ logs'.global_step = logs.global_step
             /\ logs'.epoch_step = logs.epoch_step
             /\ logs'.epoch_evaluation = logs.epoch_evaluation
       /\ logs'.global_step >= logs.global_step
       /\ logs'.epoch_step >= logs.epoch_step
       /\ logs'.epoch_evaluation[1] * logs.epoch_evaluation[2] >=
             logs.epoch_evaluation[1] * logs'.epoch_evaluation[2]
       /\ logs'.global_step = opt_calls'
       /\ logs'.epoch_step = opt_calls']_vars

\* optimize records, verbose and not, then an evaluation pass, then a progress line
C10_Witness ==
    /\ opt_calls >= 2
    /\ logs.epoch_evaluation # <<0, 1>>
    /\ eval_pc = "ended"
    /\ call.hook = "step_end" /\ call.printed

====
